---- MODULE Spec2Model ----
(***************************************************************************)
(* Model of src/hr_partner.py: the three Role Agents (HRSpecialist,        *)
(* CareerPartner, WorkplaceAdvisor), their prompt templates, the           *)
(* orchestrator HRPartnerTeam.get_hr_advice, and the consultation page of  *)
(* main.                                                                   *)
(*                                                                         *)
(* Text is a sequence of tokens.  Every fixed piece of a Python f-string   *)
(* (the text between two {...} substitutions, layout included) is one      *)
(* token, named after the template and the place it stands at; a value     *)
(* substituted into a template (a field of input_data, a generation        *)
(* response, service_type) is a token sequence of its own and is inserted  *)
(* unchanged, as str.format does.  "s contains t" is "t is a contiguous    *)
(* subsequence of s".                                                      *)
(*                                                                         *)
(* Strings of the source that are not ASCII are written with ASCII names:  *)
(*   "고용/계약"      -> "employment/contract"                             *)
(*   "급여/복리후생"  -> "compensation/benefits"                           *)
(*   "평가/성과"      -> "performance/review"                              *)
(*   "직장 내 문제"   -> "workplace issue"                                 *)
(*   "경력 개발"      -> "career development"                              *)
(*   '정보 없음'      -> "(no information)"                                *)
(*   "=== 인사 전문가의 분석 ===" -> "=== HR specialist's analysis ==="    *)
(*   "=== 이전 전문가들의 분석 ===" -> "=== previous experts' analysis ===" *)
(*   "=== 분석 끝 ==="  -> "=== end of analysis ==="                       *)
(***************************************************************************)
EXTENDS Naturals, Sequences, FiniteSets

VARIABLES
    pc,               \* where the running call stands (see PcValues)
    service_type,     \* argument of the running get_hr_advice call
    input_data,       \* argument of the running get_hr_advice call
    hr_analysis,      \* local of get_hr_advice: None or Some(text)
    career_analysis,  \* local of get_hr_advice: None or Some(text)
    workplace_advice, \* local of get_hr_advice: None or Some(text)
    workflow_log,     \* local of get_hr_advice: None or Some(record)
    workflow_logs,    \* HRPartnerTeam.workflow_logs
    result,           \* what get_hr_advice returned: None or Some(record)
    calls,            \* generate_content calls of this request, in order
    responses,        \* outcomes of those calls, in order
    agent_result,     \* what a directly invoked agent method returned
    now,              \* the wall clock, in seconds since the instance was made
    runs,             \* get_hr_advice calls started on this instance
    ui                \* the page main has rendered and what the user did

vars == <<pc, service_type, input_data, hr_analysis, career_analysis,
          workplace_advice, workflow_log, workflow_logs, result, calls,
          responses, agent_result, now, runs, ui>>

\* the state of one HRPartnerTeam instance and of the call running on it
team == <<pc, service_type, input_data, hr_analysis, career_analysis,
          workplace_advice, workflow_log, workflow_logs, result, calls,
          responses, agent_result, now, runs>>

----------------------------------------------------------------------------
(* Bounds of the model *)

\* get_hr_advice calls made on one HRPartnerTeam instance
MaxRuns == 2
\* an input record leaves out at most MaxAbsent fields, or holds at most
\* MaxAbsent fields
MaxAbsent == 1
\* consult buttons the user presses on the page of main in one process
MaxPresses == 2

----------------------------------------------------------------------------
(* Python values *)

\* Python's None, and a value that is not None
None == <<>>
Some(v) == <<v>>

\* str(x) as an f-string substitution {x} computes it: a str is inserted as
\* it is, None becomes the text "None"
Str(x) == IF x = None THEN <<"None">> ELSE x[1]

\* the empty str ''
EmptyStr == <<>>

\* s contains t as a substring
Contains(s, t) ==
    \E i \in 0..Len(s) :
        /\ i + Len(t) <= Len(s)
        /\ SubSeq(s, i + 1, i + Len(t)) = t

\* input_data.get(key) or default, in place of dict.get(key, default): the
\* default is given for an empty value as it is for an absent key
Get_or_default(d, key, default) ==
    IF key \in DOMAIN d /\ d[key] # EmptyStr THEN d[key] ELSE default

\* dict.get(key, default) that gives the default whether or not the key is
\* there
Get_always_default(d, key, default) == default

\* dict.get(key) in place of dict.get(key, default): the default argument
\* left out, so that an absent key gives None
Get_without_default(d, key, default) ==
    IF key \in DOMAIN d THEN d[key] ELSE <<"None">>

\* dict.get(key, default)
Get(d, key, default) == IF key \in DOMAIN d THEN d[key] ELSE default

----------------------------------------------------------------------------
(* The request categories and the input record *)

Employment == "employment/contract"
Compensation == "compensation/benefits"
Performance == "performance/review"
WorkplaceIssue == "workplace issue"
CareerDevelopment == "career development"

\* the five service types the agents compare service_type with
Categories ==
    {Employment, Compensation, Performance, WorkplaceIssue, CareerDevelopment}

\* service types outside the five: another topic, and a known one misspelt
\* (a trailing blank)
UnknownCategories == {"other", "employment/contract "}

ServiceTypes == Categories \cup UnknownCategories

\* every key that some template reads from input_data
Fields ==
    {"question", "position", "industry", "experience", "location",
     "company_size", "issue_type", "career_goal", "salary",
     "performance_concern", "skill_interests", "workplace_culture",
     "personality", "team_structure", "evaluation_culture", "relationship",
     "relationship_style"}

\* the default of every input_data.get(key, default) but the question's
NoInfo == <<"(no information)">>

----------------------------------------------------------------------------
(* f-strings *)

\* One piece of an f-string: fixed text, {input_data.get(key, default)}, or
\* {name} for a name of the enclosing scope
Lit(text) == <<"lit", text, EmptyStr>>
Field(key, default) == <<"get", key, default>>
Var(name) == <<"var", name, EmptyStr>>

\* the text one piece of an f-string evaluates to; env.input_data is the
\* dict, env.scope maps each name in scope to its value
PieceText(piece, env) ==
    CASE piece[1] = "lit" -> piece[2]
      [] piece[1] = "get" -> Get(env.input_data, piece[2], piece[3])
      [] piece[1] = "var" -> Str(env.scope[piece[2]])

RECURSIVE Format(_, _)
\* the value of an f-string: its pieces' texts, joined in order
Format(fstring, env) ==
    IF fstring = <<>>
    THEN EmptyStr
    ELSE PieceText(Head(fstring), env) \o Format(Tail(fstring), env)

\* the names an agent's f-strings read besides input_data: self.expert_name,
\* self.expert_intro, service_type, previous_analysis and the local prompt
Scope(expert, svc, prev, inner) ==
    [expert_name |-> Some(<<expert, ".expert_name">>),
     expert_intro |-> Some(<<expert, ".expert_intro">>),
     service_type |-> Some(<<svc>>),
     previous_analysis |-> prev,
     prompt |-> inner]

----------------------------------------------------------------------------
(* The prompt templates, one per _create_*_prompt method.  A token "hr La-b" *)
(* is the fixed text of lines a to b of src/hr_partner.py that stands        *)
(* between two substitutions.                                                *)

\* HRSpecialist._create_employment_prompt, lines 146-162
create_employment_prompt ==
    <<Lit(<<"hr L147-150">>),
      Field("question", EmptyStr),
      Lit(<<"hr L150-159">>),
      Field("position", NoInfo),
      Lit(<<"hr L159-160">>),
      Field("industry", NoInfo),
      Lit(<<"hr L160-161">>),
      Field("experience", NoInfo),
      Lit(<<"hr L161-162">>)>>

\* HRSpecialist._create_compensation_prompt, lines 164-181
create_compensation_prompt ==
    <<Lit(<<"hr L165-168">>),
      Field("question", EmptyStr),
      Lit(<<"hr L168-177">>),
      Field("position", NoInfo),
      Lit(<<"hr L177-178">>),
      Field("industry", NoInfo),
      Lit(<<"hr L178-179">>),
      Field("experience", NoInfo),
      Lit(<<"hr L179-180">>),
      Field("location", NoInfo),
      Lit(<<"hr L180-181">>)>>

\* _create_performance_prompt with the question left out
create_performance_prompt_without_question ==
    <<Lit(<<"hr L184-196">>),
      Field("position", NoInfo),
      Lit(<<"hr L196-197">>),
      Field("industry", NoInfo),
      Lit(<<"hr L197-198">>),
      Field("company_size", NoInfo),
      Lit(<<"hr L198-199">>)>>

\* HRSpecialist._create_performance_prompt, lines 183-199
create_performance_prompt ==
    <<Lit(<<"hr L184-187">>),
      Field("question", EmptyStr),
      Lit(<<"hr L187-196">>),
      Field("position", NoInfo),
      Lit(<<"hr L196-197">>),
      Field("industry", NoInfo),
      Lit(<<"hr L197-198">>),
      Field("company_size", NoInfo),
      Lit(<<"hr L198-199">>)>>

\* HRSpecialist._create_workplace_issue_prompt, lines 201-217
create_workplace_issue_prompt ==
    <<Lit(<<"hr L202-205">>),
      Field("question", EmptyStr),
      Lit(<<"hr L205-214">>),
      Field("issue_type", NoInfo),
      Lit(<<"hr L214-215">>),
      Field("position", NoInfo),
      Lit(<<"hr L215-216">>),
      Field("company_size", NoInfo),
      Lit(<<"hr L216-217">>)>>

\* HRSpecialist._create_career_hr_prompt, lines 219-235
create_career_hr_prompt ==
    <<Lit(<<"hr L220-223">>),
      Field("question", EmptyStr),
      Lit(<<"hr L223-232">>),
      Field("position", NoInfo),
      Lit(<<"hr L232-233">>),
      Field("career_goal", NoInfo),
      Lit(<<"hr L233-234">>),
      Field("experience", NoInfo),
      Lit(<<"hr L234-235">>)>>

\* HRSpecialist._create_general_hr_prompt, lines 237-245
create_general_hr_prompt ==
    <<Lit(<<"hr L238-239">>),
      Var("service_type"),
      Lit(<<"hr L239-241">>),
      Field("question", EmptyStr),
      Lit(<<"hr L241-245">>)>>

\* _create_employment_career_prompt with the question put in, as the
\* HRSpecialist templates have it
create_employment_career_prompt_with_question ==
    <<Lit(<<"career L304-305">>),
      Field("question", EmptyStr),
      Lit(<<"career L305-322">>),
      Field("position", NoInfo),
      Lit(<<"career L322-323">>),
      Field("career_goal", NoInfo),
      Lit(<<"career L323-324">>),
      Field("experience", NoInfo),
      Lit(<<"career L324-325">>)>>

\* CareerPartner._create_employment_career_prompt, lines 303-325
create_employment_career_prompt ==
    <<Lit(<<"career L304-322">>),
      Field("position", NoInfo),
      Lit(<<"career L322-323">>),
      Field("career_goal", NoInfo),
      Lit(<<"career L323-324">>),
      Field("experience", NoInfo),
      Lit(<<"career L324-325">>)>>

\* CareerPartner._create_compensation_career_prompt, lines 327-349
create_compensation_career_prompt ==
    <<Lit(<<"career L328-346">>),
      Field("position", NoInfo),
      Lit(<<"career L346-347">>),
      Field("salary", NoInfo),
      Lit(<<"career L347-348">>),
      Field("experience", NoInfo),
      Lit(<<"career L348-349">>)>>

\* CareerPartner._create_performance_career_prompt, lines 351-373
create_performance_career_prompt ==
    <<Lit(<<"career L352-370">>),
      Field("position", NoInfo),
      Lit(<<"career L370-371">>),
      Field("performance_concern", NoInfo),
      Lit(<<"career L371-372">>),
      Field("career_goal", NoInfo),
      Lit(<<"career L372-373">>)>>

\* CareerPartner._create_workplace_issue_career_prompt, lines 375-397
create_workplace_issue_career_prompt ==
    <<Lit(<<"career L376-394">>),
      Field("issue_type", NoInfo),
      Lit(<<"career L394-395">>),
      Field("position", NoInfo),
      Lit(<<"career L395-396">>),
      Field("experience", NoInfo),
      Lit(<<"career L396-397">>)>>

\* CareerPartner._create_career_development_prompt, lines 399-427
create_career_development_prompt ==
    <<Lit(<<"career L400-423">>),
      Field("position", NoInfo),
      Lit(<<"career L423-424">>),
      Field("career_goal", NoInfo),
      Lit(<<"career L424-425">>),
      Field("skill_interests", NoInfo),
      Lit(<<"career L425-426">>),
      Field("experience", NoInfo),
      Lit(<<"career L426-427">>)>>

\* _create_general_career_prompt with the service type left out
create_general_career_prompt_without_service_type ==
    <<Lit(<<"career L430-434">>),
      Field("question", EmptyStr),
      Lit(<<"career L434-437">>)>>

\* CareerPartner._create_general_career_prompt, lines 429-437
create_general_career_prompt ==
    <<Lit(<<"career L430-431">>),
      Var("service_type"),
      Lit(<<"career L431-434">>),
      Field("question", EmptyStr),
      Lit(<<"career L434-437">>)>>

\* WorkplaceAdvisor._create_employment_workplace_prompt, lines 499-521
create_employment_workplace_prompt ==
    <<Lit(<<"workplace L500-518">>),
      Field("position", NoInfo),
      Lit(<<"workplace L518-519">>),
      Field("workplace_culture", NoInfo),
      Lit(<<"workplace L519-520">>),
      Field("personality", NoInfo),
      Lit(<<"workplace L520-521">>)>>

\* WorkplaceAdvisor._create_compensation_workplace_prompt, lines 523-545
create_compensation_workplace_prompt ==
    <<Lit(<<"workplace L524-542">>),
      Field("position", NoInfo),
      Lit(<<"workplace L542-543">>),
      Field("company_size", NoInfo),
      Lit(<<"workplace L543-544">>),
      Field("workplace_culture", NoInfo),
      Lit(<<"workplace L544-545">>)>>

\* WorkplaceAdvisor._create_performance_workplace_prompt, lines 547-569
create_performance_workplace_prompt ==
    <<Lit(<<"workplace L548-566">>),
      Field("position", NoInfo),
      Lit(<<"workplace L566-567">>),
      Field("team_structure", NoInfo),
      Lit(<<"workplace L567-568">>),
      Field("evaluation_culture", NoInfo),
      Lit(<<"workplace L568-569">>)>>

\* WorkplaceAdvisor._create_workplace_issue_complete_prompt, lines 571-599
create_workplace_issue_complete_prompt ==
    <<Lit(<<"workplace L572-595">>),
      Field("issue_type", NoInfo),
      Lit(<<"workplace L595-596">>),
      Field("relationship", NoInfo),
      Lit(<<"workplace L596-597">>),
      Field("workplace_culture", NoInfo),
      Lit(<<"workplace L597-598">>),
      Field("personality", NoInfo),
      Lit(<<"workplace L598-599">>)>>

\* WorkplaceAdvisor._create_career_workplace_prompt, lines 601-629
create_career_workplace_prompt ==
    <<Lit(<<"workplace L602-625">>),
      Field("position", NoInfo),
      Lit(<<"workplace L625-626">>),
      Field("career_goal", NoInfo),
      Lit(<<"workplace L626-627">>),
      Field("workplace_culture", NoInfo),
      Lit(<<"workplace L627-628">>),
      Field("relationship_style", NoInfo),
      Lit(<<"workplace L628-629">>)>>

\* WorkplaceAdvisor._create_general_workplace_prompt, lines 631-639
create_general_workplace_prompt ==
    <<Lit(<<"workplace L632-633">>),
      Var("service_type"),
      Lit(<<"workplace L633-636">>),
      Field("question", EmptyStr),
      Lit(<<"workplace L636-639">>)>>

----------------------------------------------------------------------------
(* The three Role Agents: the prompt each hands to generate_content *)

HRSpecialist == "HRSpecialist"
CareerPartner == "CareerPartner"
WorkplaceAdvisor == "WorkplaceAdvisor"

OpenHrAnalysis == "=== HR specialist's analysis ==="
OpenPreviousAnalysis == "=== previous experts' analysis ==="
EndOfAnalysis == "=== end of analysis ==="
\* the line break and indentation between a delimiter line and the text
Newline == "<newline>"

\* HRSpecialist.analyze, lines 117-128: the template of a service type
analyze_template(svc) ==
    IF svc = Employment THEN create_employment_prompt
    ELSE IF svc = Compensation THEN create_compensation_prompt
    ELSE IF svc = Performance THEN create_performance_prompt
    ELSE IF svc = WorkplaceIssue THEN create_workplace_issue_prompt
    ELSE IF svc = CareerDevelopment THEN create_career_hr_prompt
    ELSE create_general_hr_prompt

\* HRSpecialist.analyze, lines 116-140: the prompt of line 143
analyze_prompt(svc, data) ==
    LET inner == Format(analyze_template(svc),
                        [input_data |-> data,
                         scope |-> Scope(HRSpecialist, svc, None, None)])
    IN  Format(<<Lit(<<"hr L131-132">>), Var("expert_name"),
                 Lit(<<"hr L132-133">>), Var("expert_intro"),
                 Lit(<<"hr L133-135">>), Var("prompt"),
                 Lit(<<"hr L135-140">>)>>,
               [input_data |-> data,
                scope |-> Scope(HRSpecialist, svc, None, Some(inner))])

\* CareerPartner.enhance, lines 269-280
enhance_template(svc) ==
    IF svc = Employment THEN create_employment_career_prompt
    ELSE IF svc = Compensation THEN create_compensation_career_prompt
    ELSE IF svc = Performance THEN create_performance_career_prompt
    ELSE IF svc = WorkplaceIssue THEN create_workplace_issue_career_prompt
    ELSE IF svc = CareerDevelopment THEN create_career_development_prompt
    ELSE create_general_career_prompt

\* enhance with the delimited block holding {prompt} where
\* {previous_analysis} belongs
enhance_prompt_without_context(prev, svc, data) ==
    LET inner == Format(enhance_template(svc),
                        [input_data |-> data,
                         scope |-> Scope(CareerPartner, svc, prev, None)])
    IN  Format(<<Lit(<<"career L283-284">>), Var("expert_name"),
                 Lit(<<"career L284-285">>), Var("expert_intro"),
                 Lit(<<"career L285-288", OpenHrAnalysis, Newline>>),
                 Var("prompt"),
                 Lit(<<Newline, EndOfAnalysis, "career L292-293">>),
                 Var("prompt"),
                 Lit(<<"career L293-297">>)>>,
               [input_data |-> data,
                scope |-> Scope(CareerPartner, svc, prev, Some(inner))])

\* CareerPartner.enhance, lines 268-297: the prompt of line 300
enhance_prompt(prev, svc, data) ==
    LET inner == Format(enhance_template(svc),
                        [input_data |-> data,
                         scope |-> Scope(CareerPartner, svc, prev, None)])
    IN  Format(<<Lit(<<"career L283-284">>), Var("expert_name"),
                 Lit(<<"career L284-285">>), Var("expert_intro"),
                 Lit(<<"career L285-288", OpenHrAnalysis, Newline>>),
                 Var("previous_analysis"),
                 Lit(<<Newline, EndOfAnalysis, "career L292-293">>),
                 Var("prompt"),
                 Lit(<<"career L293-297">>)>>,
               [input_data |-> data,
                scope |-> Scope(CareerPartner, svc, prev, Some(inner))])

\* finalize with the last comparison misspelt ("career  development", two
\* blanks), so that "career development" falls through to the else branch
finalize_template_misspelt(svc) ==
    IF svc = Employment THEN create_employment_workplace_prompt
    ELSE IF svc = Compensation THEN create_compensation_workplace_prompt
    ELSE IF svc = Performance THEN create_performance_workplace_prompt
    ELSE IF svc = WorkplaceIssue THEN create_workplace_issue_complete_prompt
    ELSE IF svc = "career  development" THEN create_career_workplace_prompt
    ELSE create_general_workplace_prompt

\* WorkplaceAdvisor.finalize, lines 461-472
finalize_template(svc) ==
    IF svc = Employment THEN create_employment_workplace_prompt
    ELSE IF svc = Compensation THEN create_compensation_workplace_prompt
    ELSE IF svc = Performance THEN create_performance_workplace_prompt
    ELSE IF svc = WorkplaceIssue THEN create_workplace_issue_complete_prompt
    ELSE IF svc = CareerDevelopment THEN create_career_workplace_prompt
    ELSE create_general_workplace_prompt

\* WorkplaceAdvisor.finalize, lines 460-493: the prompt of line 496
finalize_prompt(prev, svc, data) ==
    LET inner == Format(finalize_template(svc),
                        [input_data |-> data,
                         scope |-> Scope(WorkplaceAdvisor, svc, prev, None)])
    IN  Format(<<Lit(<<"workplace L475-476">>), Var("expert_name"),
                 Lit(<<"workplace L476-477">>), Var("expert_intro"),
                 Lit(<<"workplace L477-480", OpenPreviousAnalysis, Newline>>),
                 Var("previous_analysis"),
                 Lit(<<Newline, EndOfAnalysis, "workplace L484-485">>),
                 Var("prompt"),
                 Lit(<<"workplace L485-493">>)>>,
               [input_data |-> data,
                scope |-> Scope(WorkplaceAdvisor, svc, prev, Some(inner))])

\* one call of model.generate_content as the generation capability sees it,
\* with the arguments the agent method was invoked with
Call(expert, prev, svc, data, text) ==
    [expert |-> expert, previous_analysis |-> prev, service_type |-> svc,
     input_data |-> data, prompt |-> text]

----------------------------------------------------------------------------
(* Inputs *)

\* texts the generation capability returns; the first is a substring of the
\* second
ResponseTexts == {<<"a">>, <<"b", "a">>}

\* a field is filled in, or left blank (the empty str)
Variants == {"filled", "blank"}
FieldValue(f, variant) ==
    IF variant = "blank" THEN EmptyStr ELSE <<"value of", f>>

\* the dict with the keys D
Record(D, variant) == [f \in D |-> FieldValue(f, variant)]

\* main, lines 819-825, 861-869, 905-912, 959-968, 1009-1017: the keys of the
\* input_data main builds for a service
input_data_keys(service) ==
    CASE service = Employment ->
           {"question", "position", "experience", "industry", "company_size"}
      [] service = Compensation ->
           {"question", "position", "experience", "salary", "industry",
            "location", "company_size"}
      [] service = Performance ->
           {"question", "position", "performance_concern", "company_size",
            "evaluation_culture", "career_goal"}
      [] service = WorkplaceIssue ->
           {"question", "issue_type", "position", "experience",
            "company_size", "workplace_culture", "relationship",
            "personality"}
      [] service = CareerDevelopment ->
           {"question", "position", "experience", "career_goal",
            "relationship_style", "skill_interests", "workplace_culture"}

\* sets of at most MaxAbsent fields
FewFields == {A \in SUBSET Fields : Cardinality(A) <= MaxAbsent}

\* the input records an agent method is invoked with: all fields but a few,
\* or only a few fields (none included)
InputRecords ==
    {Record(D, v) : D \in FewFields \cup {Fields \ A : A \in FewFields},
                    v \in Variants}

\* the input records get_hr_advice is called with for a service type: the
\* empty dict, a dict with every field, and the dicts main builds for it
RequestRecords(svc) ==
    {Record({}, "filled"), Record(Fields, "filled")}
    \cup (IF svc \in Categories
          THEN {Record(input_data_keys(svc), v) : v \in Variants}
          ELSE {})

\* the previous_analysis a directly invoked agent method is given
PriorContexts == {None} \cup {Some(t) : t \in ResponseTexts}

----------------------------------------------------------------------------
(* The page of main.  Streamlit runs main from its first line to its last  *)
(* each time the user changes a widget or presses a button; a button       *)
(* returns True only in the run its press has caused.  The API key of the  *)
(* sidebar (lines 672-677) has been entered.                               *)

\* the key of the button that main's code for a service ends in, lines 813,
\* 855, 899, 953, 1003
consultation_key(service) ==
    CASE service = Employment -> "employment_consultation"
      [] service = Compensation -> "compensation_consultation"
      [] service = Performance -> "performance_consultation"
      [] service = WorkplaceIssue -> "workplace_issue_consultation"
      [] service = CareerDevelopment -> "career_consultation"

\* the consult buttons a run of main renders in which no button is pressed:
\* the if of line 953 stands at the level of the function, outside the elif
\* of line 925, so its button is rendered whatever the service; the elif of
\* line 982 belongs to that if
rendered_buttons(service) ==
    {consultation_key(service), "workplace_issue_consultation"}

\* the keys of input_data that main reads from st.text_input or
\* st.text_area, which are '' until the user types; the other keys come from
\* st.selectbox, which always has a value
TextInputs ==
    {"question", "position", "industry", "salary", "location",
     "performance_concern", "career_goal", "relationship",
     "skill_interests"}

\* what the user may have typed as the question
Questions == {FieldValue("question", v) : v \in Variants}

\* main, lines 819-825, 861-869, 905-912, 959-968, 1009-1017: the input_data
\* built from the widgets of a service
form_input_data(service, question, variant) ==
    [f \in input_data_keys(service) |->
        IF f = "question" THEN question
        ELSE IF f \in TextInputs THEN FieldValue(f, variant)
        ELSE FieldValue(f, "filled")]

\* the page after the first run of main: the selectbox of line 735 shows its
\* first option, the text widgets are empty, no button has been pressed
first_page ==
    [service |-> Employment,
     question |-> EmptyStr,
     variant |-> "blank",
     rendered |-> rendered_buttons(Employment),
     pressed |-> None,
     shown |-> "form",
     team_built |-> FALSE,
     completed |-> 0,
     presses |-> 0]

----------------------------------------------------------------------------
(* State *)

\* HRPartnerTeam.__init__, lines 23-39, before any call
Init ==
    /\ pc = "idle"
    /\ service_type = None
    /\ input_data = None
    /\ hr_analysis = None
    /\ career_analysis = None
    /\ workplace_advice = None
    /\ workflow_log = None
    /\ workflow_logs = <<>>
    /\ result = None
    /\ calls = <<>>
    /\ responses = <<>>
    /\ agent_result = None
    /\ now = 0
    /\ runs = 0
    /\ ui = first_page

\* AppendStep with the list of steps assigned anew (workflow_log["steps"] =
\* [{...}]) where it is appended to
AppendStep_assigns(log, expert, action) ==
    [log EXCEPT !.steps = <<[expert |-> expert, action |-> action]>>]

\* workflow_log["steps"].append({...}) of lines 62-65, 71-74, 80-83
AppendStep(log, expert, action) ==
    [log EXCEPT !.steps = Append(@, [expert |-> expert, action |-> action])]

----------------------------------------------------------------------------
(* HRPartnerTeam.get_hr_advice.  The method blocks in generate_content three *)
(* times; each action below runs from one such point to the next.            *)

\* no call is running on the instance
Idle == pc \in {"idle", "returned", "raised"}

\* get_hr_advice with the step of HRSpecialist appended to the log before
\* analyze is invoked, not after it has returned
get_hr_advice_logs_step_first(svc, data) ==
    /\ Idle
    /\ runs < MaxRuns
    /\ runs' = runs + 1
    /\ now' \in {now, now + 1}
    /\ service_type' = Some(svc)
    /\ input_data' = Some(data)
    /\ workflow_log' =
         Some([service_type |-> svc,
               timestamp |-> now',
               experts_involved |->
                   <<HRSpecialist, CareerPartner, WorkplaceAdvisor>>,
               steps |-> <<[expert |-> HRSpecialist,
                            action |-> "hr_analysis"]>>])
    /\ hr_analysis' = None
    /\ career_analysis' = None
    /\ workplace_advice' = None
    /\ result' = None
    /\ calls' = <<Call(HRSpecialist, None, svc, data,
                       analyze_prompt(svc, data))>>
    /\ responses' = <<>>
    /\ pc' = "analyze"
    /\ UNCHANGED <<workflow_logs, agent_result>>

\* lines 50-61 and 116-143: the log is begun and HRSpecialist.analyze sends
\* its prompt
get_hr_advice(svc, data) ==
    /\ Idle
    /\ runs < MaxRuns
    /\ runs' = runs + 1
    /\ now' \in {now, now + 1}
    /\ service_type' = Some(svc)
    /\ input_data' = Some(data)
    /\ workflow_log' =
         Some([service_type |-> svc,
               timestamp |-> now',
               experts_involved |->
                   <<HRSpecialist, CareerPartner, WorkplaceAdvisor>>,
               steps |-> <<>>])
    /\ hr_analysis' = None
    /\ career_analysis' = None
    /\ workplace_advice' = None
    /\ result' = None
    /\ calls' = <<Call(HRSpecialist, None, svc, data,
                       analyze_prompt(svc, data))>>
    /\ responses' = <<>>
    /\ pc' = "analyze"
    /\ UNCHANGED <<workflow_logs, agent_result>>

\* analyze_returns with enhance invoked for "employment/contract" whatever
\* the service type of the request
analyze_returns_fixes_category(text) ==
    /\ pc = "analyze"
    /\ responses' = Append(responses, Some(text))
    /\ hr_analysis' = Some(text)
    /\ workflow_log' =
         Some(AppendStep(workflow_log[1], HRSpecialist, "hr_analysis"))
    /\ calls' = Append(calls,
                       Call(CareerPartner, hr_analysis', Employment,
                            input_data[1],
                            enhance_prompt(hr_analysis', Employment,
                                           input_data[1])))
    /\ pc' = "enhance"
    /\ UNCHANGED <<service_type, input_data, career_analysis,
                   workplace_advice, workflow_logs, result, agent_result,
                   now, runs>>

\* analyze_returns with stages 2 and 3 in the wrong order: finalize is invoked
\* where enhance belongs
analyze_returns_then_finalize(text) ==
    /\ pc = "analyze"
    /\ responses' = Append(responses, Some(text))
    /\ hr_analysis' = Some(text)
    /\ workflow_log' =
         Some(AppendStep(workflow_log[1], HRSpecialist, "hr_analysis"))
    /\ calls' = Append(calls,
                       Call(WorkplaceAdvisor, hr_analysis', service_type[1],
                            input_data[1],
                            finalize_prompt(hr_analysis', service_type[1],
                                            input_data[1])))
    /\ pc' = "finalize"
    /\ UNCHANGED <<service_type, input_data, career_analysis,
                   workplace_advice, workflow_logs, result, agent_result,
                   now, runs>>

\* lines 143-144, 61-70 and 268-300: analyze returns response.text, its step
\* is logged and CareerPartner.enhance sends its prompt
analyze_returns(text) ==
    /\ pc = "analyze"
    /\ responses' = Append(responses, Some(text))
    /\ hr_analysis' = Some(text)
    /\ workflow_log' =
         Some(AppendStep(workflow_log[1], HRSpecialist, "hr_analysis"))
    /\ calls' = Append(calls,
                       Call(CareerPartner, hr_analysis', service_type[1],
                            input_data[1],
                            enhance_prompt(hr_analysis', service_type[1],
                                           input_data[1])))
    /\ pc' = "enhance"
    /\ UNCHANGED <<service_type, input_data, career_analysis,
                   workplace_advice, workflow_logs, result, agent_result,
                   now, runs>>

\* enhance_returns with hr_analysis handed to finalize where career_analysis
\* belongs
enhance_returns_hands_hr_analysis(text) ==
    /\ pc = "enhance"
    /\ responses' = Append(responses, Some(text))
    /\ career_analysis' = Some(text)
    /\ workflow_log' =
         Some(AppendStep(workflow_log[1], CareerPartner, "career_enhancement"))
    /\ calls' = Append(calls,
                       Call(WorkplaceAdvisor, hr_analysis,
                            service_type[1], input_data[1],
                            finalize_prompt(hr_analysis, service_type[1],
                                            input_data[1])))
    /\ pc' = "finalize"
    /\ UNCHANGED <<service_type, input_data, hr_analysis, workplace_advice,
                   workflow_logs, result, agent_result, now, runs>>

\* lines 300-301, 70-79 and 460-496: enhance returns response.text, its step
\* is logged and WorkplaceAdvisor.finalize sends its prompt
enhance_returns(text) ==
    /\ pc = "enhance"
    /\ responses' = Append(responses, Some(text))
    /\ career_analysis' = Some(text)
    /\ workflow_log' =
         Some(AppendStep(workflow_log[1], CareerPartner, "career_enhancement"))
    /\ calls' = Append(calls,
                       Call(WorkplaceAdvisor, career_analysis',
                            service_type[1], input_data[1],
                            finalize_prompt(career_analysis', service_type[1],
                                            input_data[1])))
    /\ pc' = "finalize"
    /\ UNCHANGED <<service_type, input_data, hr_analysis, workplace_advice,
                   workflow_logs, result, agent_result, now, runs>>

\* finalize_returns with workflow_logs assigned the list of this log alone
\* (self.workflow_logs = [workflow_log]) where the log is appended
finalize_returns_assigns_history(text) ==
    /\ pc = "finalize"
    /\ responses' = Append(responses, Some(text))
    /\ workplace_advice' = Some(text)
    /\ workflow_log' =
         Some(AppendStep(workflow_log[1], WorkplaceAdvisor,
                         "workplace_finalization"))
    /\ workflow_logs' = <<workflow_log'[1]>>
    /\ result' = Some([hr |-> hr_analysis[1],
                       career |-> career_analysis[1],
                       workplace |-> workplace_advice'[1]])
    /\ pc' = "returned"
    /\ UNCHANGED <<service_type, input_data, hr_analysis, career_analysis,
                   calls, agent_result, now, runs>>

\* finalize_returns with the texts of the first two stages under each
\* other's key
finalize_returns_swaps_fields(text) ==
    /\ pc = "finalize"
    /\ responses' = Append(responses, Some(text))
    /\ workplace_advice' = Some(text)
    /\ workflow_log' =
         Some(AppendStep(workflow_log[1], WorkplaceAdvisor,
                         "workplace_finalization"))
    /\ workflow_logs' = Append(workflow_logs, workflow_log'[1])
    /\ result' = Some([hr |-> career_analysis[1],
                       career |-> hr_analysis[1],
                       workplace |-> workplace_advice'[1]])
    /\ pc' = "returned"
    /\ UNCHANGED <<service_type, input_data, hr_analysis, career_analysis,
                   calls, agent_result, now, runs>>

\* lines 496-497 and 79-93: finalize returns response.text, its step is
\* logged, the log joins workflow_logs and the three texts are returned
finalize_returns(text) ==
    /\ pc = "finalize"
    /\ responses' = Append(responses, Some(text))
    /\ workplace_advice' = Some(text)
    /\ workflow_log' =
         Some(AppendStep(workflow_log[1], WorkplaceAdvisor,
                         "workplace_finalization"))
    /\ workflow_logs' = Append(workflow_logs, workflow_log'[1])
    /\ result' = Some([hr |-> hr_analysis[1],
                       career |-> career_analysis[1],
                       workplace |-> workplace_advice'[1]])
    /\ pc' = "returned"
    /\ UNCHANGED <<service_type, input_data, hr_analysis, career_analysis,
                   calls, agent_result, now, runs>>

\* generate_content_raises with the append of line 86 in a finally clause,
\* so that the log begun joins workflow_logs though the call failed
generate_content_raises_logs_the_run ==
    /\ pc \in {"analyze", "enhance", "finalize"}
    /\ responses' = Append(responses, None)
    /\ hr_analysis' = None
    /\ career_analysis' = None
    /\ workplace_advice' = None
    /\ workflow_logs' = Append(workflow_logs, workflow_log[1])
    /\ workflow_log' = None
    /\ result' = None
    /\ pc' = "raised"
    /\ UNCHANGED <<service_type, input_data, calls, agent_result, now, runs>>

\* generate_content_raises with the exception caught in get_hr_advice and
\* the texts got so far returned
generate_content_raises_partial_result ==
    /\ pc \in {"analyze", "enhance", "finalize"}
    /\ responses' = Append(responses, None)
    /\ result' = Some([hr |-> hr_analysis, career |-> career_analysis,
                       workplace |-> None])
    /\ hr_analysis' = None
    /\ career_analysis' = None
    /\ workplace_advice' = None
    /\ workflow_log' = None
    /\ pc' = "raised"
    /\ UNCHANGED <<service_type, input_data, workflow_logs, calls,
                   agent_result, now, runs>>

\* generate_content_raises with the exception caught in the agent method and
\* the same prompt sent once more
generate_content_raises_retry ==
    /\ pc \in {"analyze", "enhance", "finalize"}
    /\ responses' = Append(responses, None)
    /\ calls' = Append(calls, calls[Len(calls)])
    /\ UNCHANGED <<pc, service_type, input_data, hr_analysis, career_analysis,
                   workplace_advice, workflow_log, workflow_logs, result,
                   agent_result, now, runs>>

\* lines 143, 300, 496: generate_content raises.  No method of the file has
\* a try statement, so the exception leaves the agent method and
\* get_hr_advice; the frame and its locals are gone and nothing is returned
generate_content_raises ==
    /\ pc \in {"analyze", "enhance", "finalize"}
    /\ responses' = Append(responses, None)
    /\ hr_analysis' = None
    /\ career_analysis' = None
    /\ workplace_advice' = None
    /\ workflow_log' = None
    /\ result' = None
    /\ pc' = "raised"
    /\ UNCHANGED <<service_type, input_data, workflow_logs, calls,
                   agent_result, now, runs>>

\* the calls made on one instance by a caller other than main: the page
\* plays no part
Next ==
    \/ /\ Idle
       /\ \E svc \in ServiceTypes :
              \E data \in RequestRecords(svc) : get_hr_advice(svc, data)
       /\ UNCHANGED ui
    \/ \E text \in ResponseTexts : analyze_returns(text) /\ UNCHANGED ui
    \/ \E text \in ResponseTexts : enhance_returns(text) /\ UNCHANGED ui
    \/ \E text \in ResponseTexts : finalize_returns(text) /\ UNCHANGED ui
    \/ generate_content_raises /\ UNCHANGED ui

\* one HRPartnerTeam instance and the get_hr_advice calls made on it
Spec == Init /\ [][Next]_vars

----------------------------------------------------------------------------
(* The agent methods invoked on their own, as a caller other than           *)
(* get_hr_advice (a test, say) invokes them                                 *)

\* HRSpecialist.analyze, lines 112-143, up to the generate_content call
analyze(svc, data) ==
    /\ pc = "idle"
    /\ calls' = <<Call(HRSpecialist, None, svc, data,
                       analyze_prompt(svc, data))>>
    /\ pc' = "agent"
    /\ UNCHANGED <<service_type, input_data, hr_analysis, career_analysis,
                   workplace_advice, workflow_log, workflow_logs, result,
                   responses, agent_result, now, runs>>

\* CareerPartner.enhance, lines 264-300, up to the generate_content call
enhance(prev, svc, data) ==
    /\ pc = "idle"
    /\ calls' = <<Call(CareerPartner, prev, svc, data,
                       enhance_prompt(prev, svc, data))>>
    /\ pc' = "agent"
    /\ UNCHANGED <<service_type, input_data, hr_analysis, career_analysis,
                   workplace_advice, workflow_log, workflow_logs, result,
                   responses, agent_result, now, runs>>

\* WorkplaceAdvisor.finalize, lines 456-496, up to the generate_content call
finalize(prev, svc, data) ==
    /\ pc = "idle"
    /\ calls' = <<Call(WorkplaceAdvisor, prev, svc, data,
                       finalize_prompt(prev, svc, data))>>
    /\ pc' = "agent"
    /\ UNCHANGED <<service_type, input_data, hr_analysis, career_analysis,
                   workplace_advice, workflow_log, workflow_logs, result,
                   responses, agent_result, now, runs>>

\* lines 143-144, 300-301, 496-497: the agent method returns response.text
agent_returns(text) ==
    /\ pc = "agent"
    /\ responses' = Append(responses, Some(text))
    /\ agent_result' = Some(text)
    /\ pc' = "agent returned"
    /\ UNCHANGED <<service_type, input_data, hr_analysis, career_analysis,
                   workplace_advice, workflow_log, workflow_logs, result,
                   calls, now, runs>>

\* lines 143, 300, 496: generate_content raises and the agent method, which
\* has no try statement, lets the exception through
agent_raises ==
    /\ pc = "agent"
    /\ responses' = Append(responses, None)
    /\ pc' = "agent raised"
    /\ UNCHANGED <<service_type, input_data, hr_analysis, career_analysis,
                   workplace_advice, workflow_log, workflow_logs, result,
                   calls, agent_result, now, runs>>

NextAgents ==
    \/ /\ pc = "idle"
       /\ \E svc \in ServiceTypes, data \in InputRecords : analyze(svc, data)
       /\ UNCHANGED ui
    \/ /\ pc = "idle"
       /\ \E prev \in PriorContexts, svc \in ServiceTypes,
             data \in InputRecords : enhance(prev, svc, data)
       /\ UNCHANGED ui
    \/ /\ pc = "idle"
       /\ \E prev \in PriorContexts, svc \in ServiceTypes,
             data \in InputRecords : finalize(prev, svc, data)
       /\ UNCHANGED ui
    \/ \E text \in ResponseTexts : agent_returns(text) /\ UNCHANGED ui
    \/ agent_raises /\ UNCHANGED ui

\* one agent method invoked on its own with any arguments
SpecAgents == Init /\ [][NextAgents]_vars

----------------------------------------------------------------------------
(* main, lines 646-1032.  ui.service, ui.question and ui.variant are the    *)
(* widgets' values; ui.rendered the consult buttons on the page;            *)
(* ui.pressed, ui.shown and ui.team_built tell of the last run: the button  *)
(* whose press caused it, what it has put under the form, and whether it    *)
(* made an HRPartnerTeam; ui.completed counts the runs that showed a        *)
(* result.  The user acts on the page while no run is waiting in a          *)
(* generation call.                                                         *)

\* HRPartnerTeam(api_key), lines 816, 858, 902, 956, 1006 with 23-39: a new
\* instance, whose workflow_logs is empty and on which nothing runs
HRPartnerTeam ==
    /\ pc' = "idle"
    /\ service_type' = None
    /\ input_data' = None
    /\ hr_analysis' = None
    /\ career_analysis' = None
    /\ workplace_advice' = None
    /\ workflow_log' = None
    /\ workflow_logs' = <<>>
    /\ result' = None
    /\ calls' = <<>>
    /\ responses' = <<>>
    /\ now' = 0
    /\ runs' = 0
    /\ UNCHANGED agent_result

\* hr_team = HRPartnerTeam(api_key) and hr_team.get_hr_advice(...) of lines
\* 816-828, 858-872, 902-915, 956-971, 1006-1020: get_hr_advice begins (lines
\* 50-61) on an instance made for this one call
HRPartnerTeam_get_hr_advice(svc, data) ==
    /\ workflow_logs' = <<>>
    /\ runs' = 1
    /\ now' \in {0, 1}
    /\ service_type' = Some(svc)
    /\ input_data' = Some(data)
    /\ workflow_log' =
         Some([service_type |-> svc,
               timestamp |-> now',
               experts_involved |->
                   <<HRSpecialist, CareerPartner, WorkplaceAdvisor>>,
               steps |-> <<>>])
    /\ hr_analysis' = None
    /\ career_analysis' = None
    /\ workplace_advice' = None
    /\ result' = None
    /\ calls' = <<Call(HRSpecialist, None, svc, data,
                       analyze_prompt(svc, data))>>
    /\ responses' = <<>>
    /\ pc' = "analyze"
    /\ UNCHANGED agent_result

\* the page of a run of main in which no button is pressed
form_page(service, question, variant) ==
    [ui EXCEPT !.service = service,
               !.question = question,
               !.variant = variant,
               !.rendered = rendered_buttons(service),
               !.pressed = None,
               !.shown = "form",
               !.team_built = FALSE]

\* lines 735-738 and 798-1000: the user picks another service; main runs
\* anew and renders the widgets of that service, which are new and empty
select_service(service) ==
    /\ Idle
    /\ service # ui.service
    /\ ui' = form_page(service, EmptyStr, "blank")
    /\ UNCHANGED team

\* the user types into the text widgets of the form, when the last run has
\* rendered it; main runs anew
edit_form(question, variant) ==
    /\ Idle
    /\ consultation_key(ui.service) \in ui.rendered
    /\ <<question, variant>> # <<ui.question, ui.variant>>
    /\ ui' = form_page(ui.service, question, variant)
    /\ UNCHANGED team

\* lines 813-836, 855-880, 899-923, 1003-1028: the user presses the button
\* inside the branch of the service; with a question the run makes a team
\* and calls get_hr_advice, without one it warns.  In the first three
\* branches the run waits in line 828, 872 or 915, before the button of line
\* 953 is rendered
consultation(service) ==
    /\ Idle
    /\ service # WorkplaceIssue
    /\ ui.service = service
    /\ consultation_key(service) \in ui.rendered
    /\ ui.presses < MaxPresses
    /\ \/ /\ ui.question # EmptyStr
          /\ HRPartnerTeam_get_hr_advice(
                 service,
                 form_input_data(service, ui.question, ui.variant))
          /\ ui' = [ui EXCEPT
                       !.pressed = Some(consultation_key(service)),
                       !.shown = "running",
                       !.team_built = TRUE,
                       !.rendered =
                           IF service = CareerDevelopment
                           THEN rendered_buttons(service)
                           ELSE {consultation_key(service)},
                       !.presses = @ + 1]
       \/ /\ ui.question = EmptyStr
          /\ ui' = [ui EXCEPT
                       !.pressed = Some(consultation_key(service)),
                       !.shown = "warning",
                       !.team_built = FALSE,
                       !.rendered = rendered_buttons(service),
                       !.presses = @ + 1]
          /\ UNCHANGED team

\* lines 953-979: the user presses the button of line 953, which is on the
\* page whatever the service.  For "workplace issue" the names the handler
\* reads are bound by lines 928-950.  For "career development" no branch
\* before line 953 has run, so question is unbound and line 954 raises
\* UnboundLocalError; the form of lines 983-1003 is not rendered in this run.
\* For the other three services question is bound by the branch of the
\* service; when it is not empty line 956 makes a team and line 960 raises
\* UnboundLocalError, issue_type being unbound
workplace_issue_consultation ==
    /\ Idle
    /\ "workplace_issue_consultation" \in ui.rendered
    /\ ui.presses < MaxPresses
    /\ \/ /\ ui.service = WorkplaceIssue
          /\ ui.question # EmptyStr
          /\ HRPartnerTeam_get_hr_advice(
                 WorkplaceIssue,
                 form_input_data(WorkplaceIssue, ui.question, ui.variant))
          /\ ui' = [ui EXCEPT
                       !.pressed = Some("workplace_issue_consultation"),
                       !.shown = "running",
                       !.team_built = TRUE,
                       !.presses = @ + 1]
       \/ /\ ui.service \in {Employment, Compensation, Performance}
          /\ ui.question # EmptyStr
          /\ HRPartnerTeam
          /\ ui' = [ui EXCEPT
                       !.pressed = Some("workplace_issue_consultation"),
                       !.shown = "UnboundLocalError",
                       !.team_built = TRUE,
                       !.presses = @ + 1]
       \/ /\ ui.service = CareerDevelopment
          /\ ui' = [ui EXCEPT
                       !.pressed = Some("workplace_issue_consultation"),
                       !.shown = "UnboundLocalError",
                       !.team_built = FALSE,
                       !.rendered = {"workplace_issue_consultation"},
                       !.presses = @ + 1]
          /\ UNCHANGED team
       \/ /\ ui.service # CareerDevelopment
          /\ ui.question = EmptyStr
          /\ ui' = [ui EXCEPT
                       !.pressed = Some("workplace_issue_consultation"),
                       !.shown = "warning",
                       !.team_built = FALSE,
                       !.presses = @ + 1]
          /\ UNCHANGED team

\* finalize_returns in a run of main, and lines 830-834, 874-878, 917-921,
\* 973-977, 1022-1026: the three texts are shown and the run goes on to its
\* end
consultation_returns(text) ==
    /\ finalize_returns(text)
    /\ ui' = [ui EXCEPT !.shown = "result",
                        !.rendered = rendered_buttons(ui.service),
                        !.completed = @ + 1]

\* generate_content_raises in a run of main: main has no try statement
\* either, the run ends there and Streamlit shows the exception
consultation_raises ==
    /\ generate_content_raises
    /\ ui' = [ui EXCEPT !.shown = "GenerationFailure"]

NextMain ==
    \/ /\ Idle
       /\ \E service \in Categories : select_service(service)
    \/ /\ Idle
       /\ \E question \in Questions, variant \in Variants :
              edit_form(question, variant)
    \/ \E service \in Categories : consultation(service)
    \/ workplace_issue_consultation
    \/ \E text \in ResponseTexts : analyze_returns(text) /\ UNCHANGED ui
    \/ \E text \in ResponseTexts : enhance_returns(text) /\ UNCHANGED ui
    \/ \E text \in ResponseTexts : consultation_returns(text)
    \/ consultation_raises

\* the page of main in one process, from its first run on
SpecMain == Init /\ [][NextMain]_vars

----------------------------------------------------------------------------
(* Properties *)

\* the order of the stages: Policy, Career, Culture
StageOrder == <<HRSpecialist, CareerPartner, WorkplaceAdvisor>>

\* some generation call of the running request has failed
SomeCallFailed == \E i \in 1..Len(responses) : responses[i] = None

\* C1: a get_hr_advice call that returns has issued exactly three generation
\* calls, by HRSpecialist, CareerPartner and WorkplaceAdvisor in this order;
\* at every moment the calls issued so far are a prefix of that order, at
\* most one of them is unanswered, and every call but the last has been
\* answered with a text before the next one was issued.
C1_ThreeCallsInOrder ==
    /\ Len(calls) <= 3
    /\ \A i \in 1..Len(calls) : calls[i].expert = StageOrder[i]
    /\ Len(responses) <= Len(calls)
    /\ Len(calls) <= Len(responses) + 1
    /\ \A i \in 1..(Len(calls) - 1) : responses[i] # None
    /\ pc = "returned" => Len(calls) = 3 /\ Len(responses) = 3

\* a call has returned after its three generation calls
C1_Witness ==
    /\ pc = "returned"
    /\ Len(calls) = 3
    /\ calls[3].expert = WorkplaceAdvisor

\* C2: a request in which a generation call failed, at whichever stage, ends
\* with the error and delivers no result object; a result object exists only
\* when all three calls were answered.
C2_AllOrNothing ==
    /\ SomeCallFailed => pc = "raised" /\ result = None
    /\ result # None =>
          /\ Len(responses) = 3
          /\ \A i \in 1..3 : responses[i] # None

\* the second generation call has failed after the first was answered
C2_Witness ==
    /\ pc = "raised"
    /\ Len(responses) = 2
    /\ responses[1] # None
    /\ responses[2] = None

\* C3: when the generation call of stage k fails, the request has issued
\* exactly k generation calls and issues no more: the failed call is the last
\* one, it is not sent again, and no later stage runs.
C3_FailureEndsTheCalls ==
    SomeCallFailed =>
        /\ pc = "raised"
        /\ Len(calls) = Len(responses)
        /\ responses[Len(responses)] = None
        /\ \A i \in 1..(Len(responses) - 1) : responses[i] # None
        /\ \A i \in 1..Len(calls) : calls[i].expert = StageOrder[i]

\* the third generation call has failed
C3_Witness ==
    /\ pc = "raised"
    /\ Len(calls) = 3
    /\ responses[3] = None

\* C4: whatever the service type and the input record, the prompt of
\* CareerPartner holds the text HRSpecialist returned, unchanged, between the
\* line "=== HR specialist's analysis ===" and the line
\* "=== end of analysis ===".
C4_CareerPromptEmbedsPolicyText ==
    Len(calls) >= 2 =>
        /\ calls[2].expert = CareerPartner
        /\ Contains(calls[2].prompt,
                    <<OpenHrAnalysis, Newline>> \o responses[1][1]
                        \o <<Newline, EndOfAnalysis>>)

\* CareerPartner has sent its prompt for a service type outside the five,
\* after HRSpecialist returned a text of two tokens
C4_Witness ==
    /\ Len(calls) >= 2
    /\ calls[2].service_type \in UnknownCategories
    /\ responses[1] = Some(<<"b", "a">>)

\* C5: whatever the service type and the input record, the prompt of
\* WorkplaceAdvisor holds the text CareerPartner returned, unchanged and on
\* lines of its own, and the context WorkplaceAdvisor was handed is that
\* text, the output of the stage right before it.
C5_CulturePromptEmbedsCareerText ==
    Len(calls) >= 3 =>
        /\ calls[3].expert = WorkplaceAdvisor
        /\ calls[3].previous_analysis = responses[2]
        /\ Contains(calls[3].prompt,
                    <<Newline>> \o responses[2][1] \o <<Newline>>)

\* WorkplaceAdvisor has sent its prompt after HRSpecialist and CareerPartner
\* returned different texts
C5_Witness ==
    /\ Len(calls) >= 3
    /\ responses[1] = Some(<<"a">>)
    /\ responses[2] = Some(<<"b", "a">>)

\* the later stages, which are handed the text of the stage before
LaterExperts == {CareerPartner, WorkplaceAdvisor}

\* the category template an agent picks for a service type
TemplateOf(expert, svc) ==
    CASE expert = HRSpecialist -> analyze_template(svc)
      [] expert = CareerPartner -> enhance_template(svc)
      [] expert = WorkplaceAdvisor -> finalize_template(svc)

\* the prompt an agent builds from its arguments
PromptOf(expert, prev, svc, data) ==
    CASE expert = HRSpecialist -> analyze_prompt(svc, data)
      [] expert = CareerPartner -> enhance_prompt(prev, svc, data)
      [] expert = WorkplaceAdvisor -> finalize_prompt(prev, svc, data)

\* the dict without its 'question' key
WithoutQuestion(data) == [f \in DOMAIN data \ {"question"} |-> data[f]]

\* the input record has a question, and it is not the empty str
HasQuestion(data) ==
    /\ "question" \in DOMAIN data
    /\ data["question"] # EmptyStr

\* C6: enhance or finalize invoked with None for previous_analysis fails
\* with a MissingPriorContext error and issues no generation call.
C6_NullPriorContextIssuesNoCall ==
    \A i \in 1..Len(calls) :
        calls[i].expert \in LaterExperts =>
            calls[i].previous_analysis # None

\* C7: for each of the five service types and every input record, the prompt
\* of HRSpecialist.analyze is not empty and holds the value of the record's
\* 'question'.
C7_PolicyPromptHoldsQuestion ==
    \A i \in 1..Len(calls) :
        (/\ calls[i].expert = HRSpecialist
         /\ calls[i].service_type \in Categories) =>
            /\ calls[i].prompt # EmptyStr
            /\ "question" \in DOMAIN calls[i].input_data =>
                   Contains(calls[i].prompt, calls[i].input_data["question"])

\* HRSpecialist.analyze has sent its prompt for one of the five service types
\* and a record with a question
C7_Witness ==
    /\ pc = "agent"
    /\ calls[1].expert = HRSpecialist
    /\ calls[1].service_type = Performance
    /\ HasQuestion(calls[1].input_data)

\* C8 as stated: for each of the five service types and every input record,
\* the prompts of CareerPartner.enhance and WorkplaceAdvisor.finalize are not
\* empty and hold the value of the record's 'question'.
C8_LaterPromptsHoldQuestion ==
    \A i \in 1..Len(calls) :
        (/\ calls[i].expert \in LaterExperts
         /\ calls[i].service_type \in Categories) =>
            /\ calls[i].prompt # EmptyStr
            /\ "question" \in DOMAIN calls[i].input_data =>
                   Contains(calls[i].prompt, calls[i].input_data["question"])

\* C8 as amended: for each of the five service types and every input record,
\* the prompts of CareerPartner.enhance and WorkplaceAdvisor.finalize are not
\* empty and hold the text handed over from the stage before; the record's
\* 'question' is not read: the prompt is the one built from the record
\* without its 'question'.
C8_LaterPromptsIgnoreQuestion ==
    \A i \in 1..Len(calls) :
        (/\ calls[i].expert \in LaterExperts
         /\ calls[i].service_type \in Categories) =>
            /\ calls[i].prompt # EmptyStr
            /\ Contains(calls[i].prompt, Str(calls[i].previous_analysis))
            /\ calls[i].prompt =
                   PromptOf(calls[i].expert, calls[i].previous_analysis,
                            calls[i].service_type,
                            WithoutQuestion(calls[i].input_data))

\* CareerPartner.enhance has sent its prompt for one of the five service
\* types and a record with a question
C8_Witness ==
    /\ pc = "agent"
    /\ calls[1].expert = CareerPartner
    /\ calls[1].service_type = Employment
    /\ calls[1].previous_analysis # None
    /\ HasQuestion(calls[1].input_data)

\* the first fixed piece of an agent's fallback template
GeneralHead(expert) ==
    CASE expert = HRSpecialist -> "hr L238-239"
      [] expert = CareerPartner -> "career L430-431"
      [] expert = WorkplaceAdvisor -> "workplace L632-633"

\* C9: for a service type outside the five, every agent builds its prompt
\* from its fallback template: the prompt is there (nothing is raised on the
\* way to the generation call), is not empty, and holds the service type,
\* after the fallback template's opening words, and the record's question;
\* and the request runs on as for any service type: three calls, a result.
C9_FallbackForUnknownCategory ==
    (service_type # None /\ service_type[1] \in UnknownCategories) =>
        /\ pc \in {"analyze", "enhance", "finalize"} =>
               Len(calls) = Len(responses) + 1
        /\ \A i \in 1..Len(calls) :
               /\ calls[i].service_type = service_type[1]
               /\ calls[i].prompt # EmptyStr
               /\ Contains(calls[i].prompt,
                           <<GeneralHead(calls[i].expert), service_type[1]>>)
               /\ "question" \in DOMAIN calls[i].input_data =>
                      Contains(calls[i].prompt,
                               calls[i].input_data["question"])
        /\ pc = "returned" =>
               /\ Len(calls) = 3
               /\ result # None
               /\ workflow_logs # <<>>

\* a request for a service type outside the five, with a question, has
\* returned
C9_Witness ==
    /\ pc = "returned"
    /\ service_type[1] \in UnknownCategories
    /\ HasQuestion(input_data[1])
    /\ Len(calls) = 3

\* C10: whatever the service type and whichever fields the input record
\* lacks, every agent builds its prompt (nothing is raised), and every slot
\* of the chosen template whose field, other than 'question', is absent
\* holds the placeholder "(no information)" between the fixed texts around it.
C10_AbsentFieldsGetPlaceholder ==
    /\ pc = "agent" => Len(calls) = 1
    /\ \A i \in 1..Len(calls) :
           LET t == TemplateOf(calls[i].expert, calls[i].service_type)
           IN  \A j \in 1..Len(t) :
                   (/\ t[j][1] = "get"
                    /\ t[j][2] # "question"
                    /\ t[j][2] \notin DOMAIN calls[i].input_data) =>
                       Contains(calls[i].prompt,
                                t[j - 1][2] \o NoInfo \o t[j + 1][2])

\* HRSpecialist.analyze has sent its prompt for a record that lacks
\* 'industry' alone, and WorkplaceAdvisor.finalize for the empty record
C10_Witness ==
    /\ pc = "agent"
    /\ \/ /\ calls[1].expert = HRSpecialist
          /\ calls[1].service_type = Employment
          /\ DOMAIN calls[1].input_data = Fields \ {"industry"}
       \/ /\ calls[1].expert = WorkplaceAdvisor
          /\ calls[1].service_type = WorkplaceIssue
          /\ DOMAIN calls[1].input_data = {}

\* C11: every slot of the chosen template whose field is present in the
\* input record holds the record's value between the fixed texts around it,
\* and not the placeholder (unless the value is the placeholder's own text);
\* in particular the prompt of HRSpecialist.analyze for
\* "compensation/benefits" holds the record's question, industry and location.
C11_PresentFieldsFillTheirSlots ==
    \A i \in 1..Len(calls) :
        LET t == TemplateOf(calls[i].expert, calls[i].service_type)
            data == calls[i].input_data
        IN  /\ \A j \in 1..Len(t) :
                   (t[j][1] = "get" /\ t[j][2] \in DOMAIN data) =>
                       /\ Contains(calls[i].prompt,
                                   t[j - 1][2] \o data[t[j][2]] \o t[j + 1][2])
                       /\ data[t[j][2]] # NoInfo =>
                              ~Contains(calls[i].prompt,
                                        t[j - 1][2] \o NoInfo \o t[j + 1][2])
            /\ (/\ calls[i].expert = HRSpecialist
                /\ calls[i].service_type = Compensation) =>
                   \A f \in {"question", "industry", "location"} :
                       /\ \E j \in 1..Len(t) : t[j] = <<"get", f,
                              IF f = "question" THEN EmptyStr ELSE NoInfo>>
                       /\ f \in DOMAIN data =>
                              Contains(calls[i].prompt, data[f])

\* HRSpecialist.analyze has sent its prompt for "compensation/benefits" and a
\* record with every field filled in
C11_Witness ==
    /\ pc = "agent"
    /\ calls[1].expert = HRSpecialist
    /\ calls[1].service_type = Compensation
    /\ DOMAIN calls[1].input_data = Fields
    /\ calls[1].input_data["location"] = <<"value of", "location">>
    /\ calls[1].input_data["industry"] = <<"value of", "industry">>
    /\ HasQuestion(calls[1].input_data)

\* the three steps of a completed run, in the order they are logged
ThreeSteps ==
    <<[expert |-> HRSpecialist, action |-> "hr_analysis"],
      [expert |-> CareerPartner, action |-> "career_enhancement"],
      [expert |-> WorkplaceAdvisor, action |-> "workplace_finalization"]>>

\* C12: the step in which a get_hr_advice call returns makes workflow_logs
\* longer by exactly one record, and that record holds the service type of
\* the request and exactly the three steps (HRSpecialist, hr_analysis),
\* (CareerPartner, career_enhancement), (WorkplaceAdvisor,
\* workplace_finalization), in this order.
C12_SuccessAppendsOneRunRecord ==
    [][(pc # "returned" /\ pc' = "returned") =>
          /\ Len(workflow_logs') = Len(workflow_logs) + 1
          /\ workflow_logs'[Len(workflow_logs')].service_type =
                 service_type[1]
          /\ workflow_logs'[Len(workflow_logs')].steps = ThreeSteps]_vars

\* a call has returned and its record, of three steps, is the only one
C12_Witness ==
    /\ pc = "returned"
    /\ Len(workflow_logs) = 1
    /\ workflow_logs[1].service_type = service_type[1]
    /\ Len(workflow_logs[1].steps) = 3

\* C13: a step that is not the return of a get_hr_advice call leaves
\* workflow_logs as it was, so a call that fails, at whichever stage, appends
\* nothing between its start and its failure; and every record in
\* workflow_logs is that of a completed run: it has the three steps.
C13_FailureLeavesHistory ==
    [][/\ pc' # "returned" => workflow_logs' = workflow_logs
       /\ \A i \in 1..Len(workflow_logs') :
              workflow_logs'[i].steps = ThreeSteps]_vars

\* a call has failed at its second stage on an instance whose history holds
\* the record of an earlier call
C13_Witness ==
    /\ pc = "raised"
    /\ Len(workflow_logs) = 1
    /\ Len(responses) = 2
    /\ runs = 2

\* C15: whatever step is taken, the records that were in workflow_logs are
\* still there, at the same positions and with the same contents; the list
\* only grows at its end.
C15_HistoryIsAppendOnly ==
    [][/\ Len(workflow_logs') >= Len(workflow_logs)
       /\ SubSeq(workflow_logs', 1, Len(workflow_logs)) = workflow_logs]_vars

\* the history holds the records of two calls for different service types
C15_Witness ==
    /\ Len(workflow_logs) = 2
    /\ workflow_logs[1].service_type # workflow_logs[2].service_type

\* C16: within one get_hr_advice call, every agent is invoked with the
\* service_type and the input_data the caller passed, and the log of the
\* call, and the record it leaves in workflow_logs, hold that service_type.
C16_OneCategoryPerRequest ==
    /\ \A i \in 1..Len(calls) :
           /\ calls[i].service_type = service_type[1]
           /\ calls[i].input_data = input_data[1]
    /\ workflow_log # None => workflow_log[1].service_type = service_type[1]
    /\ pc = "returned" =>
           workflow_logs[Len(workflow_logs)].service_type = service_type[1]

\* a call for "workplace issue" with the record main builds for it has
\* invoked the three agents and returned
C16_Witness ==
    /\ pc = "returned"
    /\ Len(calls) = 3
    /\ service_type = Some(WorkplaceIssue)
    /\ DOMAIN input_data[1] = input_data_keys(WorkplaceIssue)

\* C17: the dict a get_hr_advice call returns holds under 'hr' the text of
\* the first generation response, under 'career' that of the second and
\* under 'workplace' that of the third, each unchanged.
C17_ResultHoldsRawResponses ==
    result # None =>
        /\ Len(responses) = 3
        /\ result[1] = [hr |-> responses[1][1],
                        career |-> responses[2][1],
                        workplace |-> responses[3][1]]

\* a call has returned after three responses of which the second differs
\* from the first and the third
C17_Witness ==
    /\ result # None
    /\ responses = <<Some(<<"a">>), Some(<<"b", "a">>), Some(<<"a">>)>>

\* the opening words of the template each agent has for each of the five
\* service types: the text that begins at the line after the def of
\* _create_employment_prompt, _create_compensation_prompt, ... (lines 146,
\* 164, 183, 201, 219; 303, 327, 351, 375, 399; 499, 523, 547, 571, 601),
\* each of which names its service type
CategoryHead(expert, svc) ==
    CASE expert = HRSpecialist ->
           (CASE svc = Employment -> "hr L147-150"
              [] svc = Compensation -> "hr L165-168"
              [] svc = Performance -> "hr L184-187"
              [] svc = WorkplaceIssue -> "hr L202-205"
              [] svc = CareerDevelopment -> "hr L220-223")
      [] expert = CareerPartner ->
           (CASE svc = Employment -> "career L304-322"
              [] svc = Compensation -> "career L328-346"
              [] svc = Performance -> "career L352-370"
              [] svc = WorkplaceIssue -> "career L376-394"
              [] svc = CareerDevelopment -> "career L400-423")
      [] expert = WorkplaceAdvisor ->
           (CASE svc = Employment -> "workplace L500-518"
              [] svc = Compensation -> "workplace L524-542"
              [] svc = Performance -> "workplace L548-566"
              [] svc = WorkplaceIssue -> "workplace L572-595"
              [] svc = CareerDevelopment -> "workplace L602-625")

\* the opening words of the six templates of an agent
Heads(expert) ==
    {CategoryHead(expert, svc) : svc \in Categories}
    \cup {GeneralHead(expert)}

\* the templates whose opening words a prompt holds
Dispatched(call) ==
    {h \in Heads(call.expert) : Contains(call.prompt, <<h>>)}

\* C18: for each of the five service types every agent builds its prompt
\* from the template of that service type and from no other template, the
\* fallback included; for a service type outside the five, from the fallback
\* template and no other.  The choice depends on the service type alone and
\* is the same in the three agents: each picks its own template of the same
\* service type.
C18_DispatchByCategory ==
    \A i \in 1..Len(calls) :
        /\ calls[i].service_type \in Categories =>
               Dispatched(calls[i]) =
                   {CategoryHead(calls[i].expert, calls[i].service_type)}
        /\ calls[i].service_type \notin Categories =>
               Dispatched(calls[i]) = {GeneralHead(calls[i].expert)}
        /\ GeneralHead(calls[i].expert) \in Dispatched(calls[i]) <=>
               calls[i].service_type \notin Categories

\* WorkplaceAdvisor.finalize has sent its prompt for "career development",
\* the last of the comparisons
C18_Witness ==
    /\ pc = "agent"
    /\ calls[1].expert = WorkplaceAdvisor
    /\ calls[1].service_type = CareerDevelopment
    /\ CategoryHead(WorkplaceAdvisor, CareerDevelopment)
           \in Dispatched(calls[1])

\* a run of main is waiting in a generation call
Running == pc \in {"analyze", "enhance", "finalize"}

\* C14: after n requests that went through the page of main and showed
\* their result, the workflow_logs of the team holds n records: the record
\* of a later request joins the records of the earlier ones.
C14_HistoryHoldsEveryRequest ==
    ui.shown = "result" => Len(workflow_logs) = ui.completed

\* C19: whatever the service selected, the press of any consult button on
\* the page, with a question typed, reaches get_hr_advice with the selected
\* service as service_type: the run makes a team and the pipeline runs,
\* shows its result or fails in a generation call, the handler reading no
\* name that is unbound; and no pipeline runs for another service than the
\* selected one.
C19_EveryButtonStartsThePipeline ==
    /\ (ui.pressed # None /\ ui.question # EmptyStr) =>
           /\ ui.shown \in {"running", "result", "GenerationFailure"}
           /\ ui.team_built
           /\ service_type = Some(ui.service)
    /\ ui.shown # "UnboundLocalError"
    /\ Running => service_type = Some(ui.service)

\* C20: the press of a consult button while the question is empty makes no
\* team and issues no generation call, and the run shows a warning and
\* nothing else; so every get_hr_advice call that main makes has a question
\* that is not empty.
C20_EmptyQuestionOnlyWarns ==
    /\ (ui.pressed # None /\ ui.question = EmptyStr) =>
           /\ ~ui.team_built
           /\ ~Running
           /\ ui.shown = "warning"
    /\ ui.shown \in {"running", "result", "GenerationFailure"} =>
           HasQuestion(input_data[1])

\* the generation calls of the running request that were answered with a
\* text
Answered == {i \in 1..Len(responses) : responses[i] # None}

C22_PlaceholderOnlyForAbsentKeys ==
    \A i \in 1..Len(calls) :
        LET t == TemplateOf(calls[i].expert, calls[i].service_type)
            data == calls[i].input_data
        IN  \A j \in 1..Len(t) :
                t[j][1] = "get" =>
                    LET key == t[j][2]
                        empty == t[j - 1][2] \o t[j + 1][2]
                        placeholder == t[j - 1][2] \o NoInfo \o t[j + 1][2]
                    IN  /\ Contains(calls[i].prompt, placeholder) =>
                               \/ key \notin DOMAIN data /\ key # "question"
                               \/ key \in DOMAIN data /\ data[key] = NoInfo
                        /\ (key \in DOMAIN data /\ data[key] = EmptyStr) =>
                               /\ Contains(calls[i].prompt, empty)
                               /\ ~Contains(calls[i].prompt, placeholder)
                        /\ (key = "question" /\ key \notin DOMAIN data) =>
                               /\ Contains(calls[i].prompt, empty)
                               /\ ~Contains(calls[i].prompt, placeholder)

\* HRSpecialist.analyze has sent its prompt for "employment/contract" and a
\* record that lacks 'question' and has the empty str for 'position'
C22_Witness ==
    /\ pc = "agent"
    /\ calls[1].expert = HRSpecialist
    /\ calls[1].service_type = Employment
    /\ "question" \notin DOMAIN calls[1].input_data
    /\ "position" \in DOMAIN calls[1].input_data
    /\ calls[1].input_data["position"] = EmptyStr

====
